---- MODULE Spec2Model ----
(***************************************************************************)
(* Signal lifecycle, trade lifecycle and portfolio valuation of the        *)
(* Pandora Intel server (routes/signals, routes/trades, routes/portfolio,  *)
(* models/Portfolio, services/portfolioService, services/aiService).       *)
(*                                                                         *)
(* Request handlers are async functions: every `await` is a point where    *)
(* another request may run, so a handler is one action per stretch of code *)
(* between two awaits.  The store is MongoDB behind Mongoose: findOne      *)
(* returns a private copy of the document, and save() of a loaded document *)
(* writes only the paths the handler modified ($set of changed fields,     *)
(* $push/$pull for array pushes and pulls); save() of a `new` document is  *)
(* an insert, which a unique index can reject.                             *)
(*                                                                         *)
(* Numbers: prices are multiples of 100 so that the 2% / 5% levels are     *)
(* integers; percentages are kept in hundredths of a percent (fixed point  *)
(* in place of IEEE doubles).  Time is counted in units of two hours.      *)
(***************************************************************************)
EXTENDS Integers, Sequences, FiniteSets, TLC

\* ---------------------------------------------------------------- bounds
MaxSignals == 1
MaxTrades == 2
NumProcs == 2
MaxTime == 2
MaxPrice == 2
MaxSize == 1
MaxLeverage == 1
MaxRequests == 4
MaxPortfolioRequests == 3

Procs == 1..NumProcs
SignalIds == 1..MaxSignals
\* odd multiples of 100: every share of a total of two of them is a whole
\* number of hundredths of a percent
Prices == {100 * (2 * k - 1) : k \in 1..MaxPrice}
Sizes == 1..MaxSize
Leverages == 1..MaxLeverage

\* `undefined` / absent numeric field (all real values used here are positive)
Undefined == 0

SignalTypes == {"quick", "spot", "hodl", "degen"}
SignalStatuses == {"active", "executed", "expired", "cancelled"}

VARIABLES
  now,        \* Date.now(), in units of two hours
  signals,    \* TradingSignal collection: signalId -> document
  created,    \* history: the signalIds that were ever stored
  trades,     \* Trade collection: sequence of documents, tradeId = index
  portfolio,  \* Portfolio collection of the user: <<>> or <<document>>
  req,        \* the request each handler slot is serving, and its locals
  lastPair,   \* history: the last two interleaved portfolio requests
  budget,     \* the number of requests still to be received
  marketData, \* the market snapshot of one asset that is being scored
  noise,      \* the random term of the last confidence, in 1/NoiseResolution
  generated,  \* what generateSignal returned: <<>> (null) or <<signal>>
  scored,     \* whether generateSignal has run for the snapshot
  stored,     \* TradingSignal collection as the generation job writes it:
              \* the documents in insertion order
  batch,      \* the signals generateAISignals returned to the running job
  cursor,     \* the loop position of the job: batch[cursor] is saved next
  reply,      \* the outcome of the job: idle, saving, ok or failed
  posted,     \* the last POST /signals: <<>> or <<[doc, code]>>
  mcache,     \* MarketService.cache.get('market_data'): <<>> or <<[data, fresh]>>
  sinceRequest, \* Date.now() - lastRequestTime in seconds, at most RequestInterval
  mcall,      \* the getMarketData call of each caller, and its locals
  heap,       \* the arrays of the backend server: reference -> elements
  tradingSignalsCache, \* [data: a reference or Null, fresh: now - timestamp < TTL]
  manualSignals, \* the ids of the manual signals
  tsCall,     \* the getTradingSignals call of each caller
  handed,     \* history: the array a caller was given last, <<[ref, value]>>
  plist,      \* the positions list handed to calculatePortfolioMetrics
  metrics,    \* the allocation and exposure maps computed for plist: <<>> or <<maps>>
  returns,    \* the returnPercent values handed to calculateSharpeRatio
  sharpe,     \* what calculateSharpeRatio returned: <<>> or <<result>>
  sizing,     \* the signal type, confidence and random rolls being sized
  sized,      \* the leverage and position size computed for sizing: <<>> or <<result>>
  listed,     \* the last answer of a signal listing: <<>> or <<[endpoint, at, docs]>>
  report,     \* the last answer of GET /portfolio: <<>> or <<[portfolio, metrics]>>
  clock,      \* wall-clock time of the cluster, in minutes
  redisClient, \* whether REDIS_URL is set: TRUE (a client) or FALSE (undefined)
  lockUntil,  \* Redis key cron:generateAISignals: the minute its PX expiry falls on
  job,        \* the cron callback of each worker: its position, its tick and
              \* whether it saved signals
  executed,   \* history: [worker, tick, at] of every run of the generation job
  skipped     \* history: [worker, tick] of every tick a worker skipped

dbVars == <<now, signals, created, trades, portfolio, req, lastPair, budget>>
scoreVars == <<marketData, noise, generated, scored>>
batchVars == <<stored, batch, cursor, reply, posted>>
marketVars == <<mcache, sinceRequest, mcall>>
\* what scoring and the generation job leave alone, besides dbVars
cacheVars == <<heap, tradingSignalsCache, manualSignals, tsCall, handed>>
calcVars == <<plist, metrics, returns, sharpe, sizing, sized>>
listVars == <<listed, report>>
cronVars == <<clock, redisClient, lockUntil, job, executed, skipped>>
sideVars == <<marketVars, cacheVars, calcVars, listVars, cronVars>>
\* what the signal, trade and portfolio routes leave alone
restVars == <<scoreVars, batchVars, sideVars>>
\* what MarketService leaves alone
offMarket ==
  <<dbVars, scoreVars, batchVars, cacheVars, calcVars, listVars, cronVars>>
\* what the backend server's signal cache leaves alone
offCache ==
  <<dbVars, scoreVars, batchVars, marketVars, calcVars, listVars, cronVars>>
\* what the portfolio metrics leave alone
offCalc ==
  <<dbVars, scoreVars, batchVars, marketVars, cacheVars, listVars, cronVars>>
\* what the signal listings leave alone, besides the collections they read
offList ==
  <<report, scoreVars, batchVars, marketVars, cacheVars, calcVars,
    cronVars>>
\* what GET /portfolio leaves alone, besides the collections it reads
offReport ==
  <<listed, scoreVars, batchVars, marketVars, cacheVars, calcVars,
    cronVars>>
\* what the cron jobs of the workers leave alone
offCron ==
  <<dbVars, scoreVars, batchVars, marketVars, cacheVars, calcVars, listVars>>
vars == <<dbVars, restVars>>

\* ------------------------------------------------------------ arithmetic
RECURSIVE SumField(_, _)
\* positions.reduce((sum, pos) => sum + pos[f], 0)
SumField(s, f) ==
  IF s = <<>> THEN 0 ELSE Head(s)[f] + SumField(Tail(s), f)

\* (part / total) * 100, in hundredths of a percent
Pct(part, total) == (part * 10000) \div total

\* String.prototype.toLowerCase on the asset symbols in use
ToLowerCase(symbol) ==
  CASE symbol = "BTC" -> "btc"
    [] symbol = "ETH" -> "eth"
    [] symbol = "SOL" -> "sol"
    [] symbol = "ADA" -> "ada"
    [] OTHER -> symbol

\* ------------------------------------------------- Mongoose save() deltas
\* The fields of `local` that differ from `loaded` are written over `db`;
\* every other field keeps what the store holds now.
MergeFields(db, loaded, local, fields) ==
  [f \in fields |-> IF local[f] # loaded[f] THEN local[f] ELSE db[f]]

\* -------------------------------------------------------------- signals
\* AIService.getExpirationTime, in units of two hours
ExpirationTime(type) ==
  CASE type = "quick" -> 1
    [] type = "spot" -> 3
    [] type = "hodl" -> 84
    [] type = "degen" -> 2

\* The generated signals that are stored in this model: type, asset, the
\* execution levels of a buy at price 100 (stopLoss 2% below, takeProfit by
\* type), the confidence and its risk level.
SignalBodies ==
  { [type |-> "quick", symbol |-> "BTC", stopLoss |-> 98, takeProfit |-> 105,
     confidence |-> 85, riskLevel |-> "medium"],
    [type |-> "hodl", symbol |-> "ADA", stopLoss |-> 98, takeProfit |-> 120,
     confidence |-> 75, riskLevel |-> "medium"] }

NewSignal(body) ==
  [type |-> body.type, symbol |-> body.symbol,
   stopLoss |-> body.stopLoss, takeProfit |-> body.takeProfit,
   confidence |-> body.confidence, riskLevel |-> body.riskLevel,
   status |-> "active", expiresAt |-> now + ExpirationTime(body.type)]

\* --------------------------------------------------------------- trades
TradeBodies ==
  [signalId : SignalIds, size : Sizes, price : Prices,
   side : {"buy", "sell"}, leverage : Leverages]

\* the executedPrice of an execute request: a price or undefined
ExecutedPrices == Prices \cup {Undefined}

NewTrade(body, signal) ==
  [signalId |-> body.signalId, symbol |-> signal.symbol, type |-> signal.type,
   side |-> body.side, size |-> body.size, price |-> body.price,
   value |-> body.size * body.price, leverage |-> body.leverage,
   stopLoss |-> signal.stopLoss, takeProfit |-> signal.takeProfit,
   status |-> "pending",
   filledSize |-> 0, avgPrice |-> Undefined, filledValue |-> 0,
   pnlRealized |-> 0, pnlUnrealized |-> 0, pnlTotal |-> 0,
   returnPercent |-> 0]

TradeFields ==
  {"signalId", "symbol", "type", "side", "size", "price", "value", "leverage",
   "stopLoss", "takeProfit", "status", "filledSize", "avgPrice", "filledValue",
   "pnlRealized", "pnlUnrealized", "pnlTotal", "returnPercent"}

\* the assignments of the execute handler with the leverage left out of the
\* unrealized PnL
ExecuteTradeUnlevered(trade, executedPrice) ==
  LET avgPrice == IF executedPrice # Undefined THEN executedPrice ELSE trade.price
      priceChange == avgPrice - trade.price
      unrealized == priceChange * trade.size
  IN [trade EXCEPT
        !.status = "filled",
        !.filledSize = trade.size,
        !.avgPrice = avgPrice,
        !.filledValue = trade.size * avgPrice,
        !.pnlUnrealized = unrealized,
        !.pnlTotal = trade.pnlRealized + unrealized,
        !.returnPercent = (priceChange * 10000) \div trade.price]

\* the in-memory trade after the assignments of the execute handler;
\* returnPercent in hundredths of a percent
ExecuteTrade(trade, executedPrice) ==
  LET avgPrice == IF executedPrice # Undefined THEN executedPrice ELSE trade.price
      priceChange == avgPrice - trade.price
      unrealized == priceChange * trade.size * trade.leverage
  IN [trade EXCEPT
        !.status = "filled",
        !.filledSize = trade.size,
        !.avgPrice = avgPrice,
        !.filledValue = trade.size * avgPrice,
        !.pnlUnrealized = unrealized,
        !.pnlTotal = trade.pnlRealized + unrealized,
        !.returnPercent = (priceChange * 10000) \div trade.price]

CancelTrade(trade) == [trade EXCEPT !.status = "cancelled"]

UpdateLevels(trade, stopLoss, takeProfit) ==
  [trade EXCEPT
     !.stopLoss = IF stopLoss # Undefined THEN stopLoss ELSE @,
     !.takeProfit = IF takeProfit # Undefined THEN takeProfit ELSE @]

\* trade.save() of a loaded trade
SaveTrade(db, loaded, local) == MergeFields(db, loaded, local, TradeFields)

\* ------------------------------------------------------------ portfolio
ZeroAllocation == [t \in SignalTypes |-> 0]
ExposureKeys == {"btc", "eth", "sol", "other"}
ZeroExposure == [k \in ExposureKeys |-> 0]

NewPortfolio ==
  [totalValue |-> 0, totalInvested |-> 0, unrealizedPnL |-> 0,
   realizedPnL |-> 0, totalPnL |-> 0, positions |-> <<>>,
   allocation |-> ZeroAllocation, exposure |-> ZeroExposure, v |-> 0]

ScalarFields ==
  {"totalValue", "totalInvested", "unrealizedPnL", "realizedPnL", "totalPnL",
   "allocation", "exposure"}

PositionFields ==
  {"id", "symbol", "type", "side", "size", "entryPrice", "currentPrice",
   "value", "invested", "unrealizedPnL", "leverage", "stopLoss", "takeProfit",
   "signalId"}

\* the bucket of a symbol that is compared as it is written
ExposureKeyExact(symbol) ==
  LET s == symbol
  IN IF s = "btc" THEN "btc"
     ELSE IF s = "eth" THEN "eth"
     ELSE IF s = "sol" THEN "sol"
     ELSE "other"

ExposureKey(symbol) ==
  LET s == ToLowerCase(symbol)
  IN IF s = "btc" THEN "btc"
     ELSE IF s = "eth" THEN "eth"
     ELSE IF s = "sol" THEN "sol"
     ELSE "other"

SelectType(positions, t) == SelectSeq(positions, LAMBDA pos : pos.type = t)
SelectKey(positions, k) ==
  SelectSeq(positions, LAMBDA pos : ExposureKey(pos.symbol) = k)

RECURSIVE SumPct(_, _)
\* sum of (pos.value / total) * 100 over the positions
SumPct(positions, total) ==
  IF positions = <<>> THEN 0
  ELSE Pct(Head(positions).value, total) + SumPct(Tail(positions), total)

\* portfolioSchema.methods.calculateAllocation
CalculateAllocation(p) ==
  LET total == SumField(p.positions, "value")
  IN IF total = 0 THEN p
     ELSE [p EXCEPT !.allocation =
             [t \in SignalTypes |-> SumPct(SelectType(p.positions, t), total)]]

\* portfolioSchema.methods.calculateExposure
CalculateExposure(p) ==
  LET total == SumField(p.positions, "value")
  IN IF total = 0 THEN p
     ELSE [p EXCEPT !.exposure =
             [k \in ExposureKeys |-> SumPct(SelectKey(p.positions, k), total)]]

\* PortfolioService.calculateAllocation(positions, totalValue)
ServiceAllocation(positions, totalValue) ==
  IF totalValue = 0 THEN ZeroAllocation
  ELSE [t \in SignalTypes |-> SumPct(SelectType(positions, t), totalValue)]

\* PortfolioService.calculateExposure(positions, totalValue)
ServiceExposure(positions, totalValue) ==
  IF totalValue = 0 THEN ZeroExposure
  ELSE [k \in ExposureKeys |-> SumPct(SelectKey(positions, k), totalValue)]

\* the position that updatePortfolioWithTrade builds from the in-memory trade
PositionOf(trade, id) ==
  [id |-> id, symbol |-> trade.symbol, type |-> trade.type,
   side |-> IF trade.side = "buy" THEN "long" ELSE "short",
   size |-> trade.filledSize,
   entryPrice |-> trade.avgPrice, currentPrice |-> trade.avgPrice,
   value |-> trade.filledValue, invested |-> trade.filledValue,
   unrealizedPnL |-> trade.pnlUnrealized, leverage |-> trade.leverage,
   stopLoss |-> trade.stopLoss, takeProfit |-> trade.takeProfit,
   signalId |-> trade.signalId]

\* updatePortfolioWithTrade, from the push to the recalculation
AddPosition(p, position) ==
  LET q == [p EXCEPT
              !.positions = Append(@, position),
              !.totalValue = @ + position.value,
              !.totalInvested = @ + position.invested,
              !.unrealizedPnL = @ + position.unrealizedPnL]
      r == [q EXCEPT !.totalPnL = q.realizedPnL + q.unrealizedPnL]
  IN CalculateExposure(CalculateAllocation(r))

HasPosition(p, id) == \E i \in 1..Len(p.positions) : p.positions[i].id = id
PositionById(p, id) ==
  p.positions[CHOOSE i \in 1..Len(p.positions) : p.positions[i].id = id]

\* router.delete('/positions/:positionId'), from the realized PnL to the
\* recalculation
ClosePosition(p, id) ==
  LET position == PositionById(p, id)
      q == [p EXCEPT !.realizedPnL = @ + position.unrealizedPnL]
      r == [q EXCEPT
              !.totalPnL = q.realizedPnL + q.unrealizedPnL,
              !.positions = SelectSeq(@, LAMBDA pos : pos.id # id)]
  IN CalculateExposure(CalculateAllocation(r))

\* the price feeds of a valuation refresh: symbol (lower case) -> price,
\* Undefined where the feed has no price for the symbol
FeedSymbols == {"btc", "ada"}
PriceFeeds ==
  {[s \in FeedSymbols |-> IF s = "btc" THEN pr ELSE Undefined] : pr \in Prices}

FeedPrice(currentPrices, symbol) ==
  IF symbol \in DOMAIN currentPrices THEN currentPrices[symbol] ELSE Undefined

\* one iteration of the loop of updatePortfolioValue
RefreshPosition(position, currentPrices) ==
  LET fed == FeedPrice(currentPrices, ToLowerCase(position.symbol))
      currentPrice == IF fed # Undefined THEN fed ELSE position.currentPrice
  IN [position EXCEPT
        !.currentPrice = currentPrice,
        !.value = position.size * currentPrice,
        !.unrealizedPnL =
          (currentPrice - position.entryPrice) * position.size * position.leverage]

\* PortfolioService.updatePortfolioValue
UpdatePortfolioValue(p, currentPrices) ==
  IF p.positions = <<>> THEN p
  ELSE
    LET ps == [i \in 1..Len(p.positions) |->
                 RefreshPosition(p.positions[i], currentPrices)]
        q == [p EXCEPT
                !.positions = ps,
                !.totalValue = SumField(ps, "value"),
                !.unrealizedPnL = SumField(ps, "unrealizedPnL")]
        r == [q EXCEPT !.totalPnL = q.realizedPnL + q.unrealizedPnL]
    IN CalculateExposure(CalculateAllocation(r))

\* portfolio.save(): an insert for a document made with `new Portfolio`
\* (rejected by the unique index on userId when the user already has one),
\* otherwise an update of the modified paths: $push of the pushed positions,
\* $pull of the pulled ones, $set of the changed fields.  A $set inside an
\* array element carries the loaded version (__v) in its filter, and a push
\* or pull increments the version.
PositionIds(positions) == {positions[i].id : i \in 1..Len(positions)}

SavePortfolio(db, loaded, local) ==
  IF loaded = <<>> THEN
    IF db = <<>> THEN [ok |-> TRUE, doc |-> <<local>>]
    ELSE [ok |-> FALSE, doc |-> db]
  ELSE
    LET was == loaded[1]
        cur == db[1]
        pushed == SelectSeq(local.positions,
                            LAMBDA pos : pos.id \notin PositionIds(was.positions))
        pulled == PositionIds(was.positions) \ PositionIds(local.positions)
        inPlace == {i \in 1..Len(was.positions) :
                      /\ was.positions[i].id \in PositionIds(local.positions)
                      /\ PositionById(local, was.positions[i].id) # was.positions[i]}
        merged == [i \in 1..Len(cur.positions) |->
                     IF i \in inPlace
                     THEN MergeFields(cur.positions[i], was.positions[i],
                                      PositionById(local, was.positions[i].id),
                                      PositionFields)
                     ELSE cur.positions[i]]
        kept == SelectSeq(merged, LAMBDA pos : pos.id \notin pulled)
        bump == IF pushed # <<>> \/ pulled # {} THEN 1 ELSE 0
    IN IF inPlace # {} /\ cur.v # was.v THEN [ok |-> FALSE, doc |-> db]
       ELSE [ok |-> TRUE,
             doc |-> <<MergeFields(cur, was, local, ScalarFields)
                         @@ [positions |-> kept \o pushed, v |-> cur.v + bump]>>]

\* ------------------------------------------------------ request handlers
IdleReq ==
  [pc |-> "idle", tid |-> 0, trade |-> <<>>, input |-> <<>>, loaded |-> <<>>,
   posId |-> <<>>, seen |-> <<>>]

\* a request that holds a loaded portfolio and has not saved it yet
OnPortfolio(r) == r.pc \in {"savePortfolio", "closeSave", "refreshSave"}

DbInit ==
  /\ now = 0
  /\ signals = <<>>
  /\ created = {}
  /\ trades = <<>>
  /\ portfolio = <<>>
  /\ req = [p \in Procs |-> IdleReq]
  /\ lastPair = <<>>
  /\ budget = MaxRequests

\* nothing is being scored
ScoreIdle ==
  /\ marketData = [priceChange24h |-> 0, priceChange7d |-> 0, volume |-> 0,
                   marketCap |-> 0, price |-> 0]
  /\ noise = 0
  /\ generated = <<>>
  /\ scored = FALSE

\* no generation job is running and nothing was stored by one
BatchIdle ==
  /\ stored = <<>>
  /\ batch = <<>>
  /\ cursor = 1
  /\ reply = "idle"
  /\ posted = <<>>

\* this.requestInterval = 2000 and the wait after HTTP 429, in seconds
RequestInterval == 2
BackoffDelay == 30

\* MarketService after construction: empty cache, lastRequestTime = 0
IdleCall == [pc |-> "idle", timer |-> 0, cached |-> <<>>, result |-> <<>>]

MarketIdle ==
  /\ mcache = <<>>
  /\ sinceRequest = RequestInterval
  /\ mcall = [p \in Procs |-> IdleCall]

\* null
Null == 0

\* the backend server at start: tradingSignalsCache = { data: null,
\* timestamp: 0 }, manualSignals = []
CacheIdle ==
  /\ heap = <<>>
  /\ tradingSignalsCache = [data |-> Null, fresh |-> FALSE]
  /\ manualSignals = <<>>
  /\ tsCall = [p \in Procs |-> "idle"]
  /\ handed = <<>>

\* no positions list and no returns list has been handed over
AllocIdle == plist = <<>> /\ metrics = <<>>
SharpeIdle == returns = <<>> /\ sharpe = <<>>

SizeIdle == sizing = <<>> /\ sized = <<>>

ListIdle == listed = <<>> /\ report = <<>>

IdleJob == [pc |-> "idle", tick |-> 0, saved |-> FALSE]

CronIdle ==
  /\ clock = 0
  /\ redisClient = FALSE
  /\ lockUntil = 0
  /\ job = <<>>
  /\ executed = {}
  /\ skipped = {}

SideIdle ==
  /\ MarketIdle /\ CacheIdle /\ AllocIdle /\ SharpeIdle /\ SizeIdle /\ ListIdle
  /\ CronIdle

RestIdle == ScoreIdle /\ BatchIdle /\ SideIdle

Init == DbInit /\ RestIdle

\* Date.now() advances
Tick ==
  /\ now < MaxTime
  /\ now' = now + 1
  /\ UNCHANGED <<signals, created, trades, portfolio, req, lastPair, budget, restVars>>

\* a generated signal is stored: new TradingSignal(signal).save().  The
\* unique index on signalId rejects a second document with the same id.
CreateSignal(id, body) ==
  /\ budget > 0
  /\ budget' = budget - 1
  /\ id \notin DOMAIN signals
  /\ signals' = signals @@ (id :> NewSignal(body))
  /\ created' = created \cup {id}
  /\ UNCHANGED <<now, trades, portfolio, req, lastPair, restVars>>

\* router.put('/:id/status'): findOneAndUpdate({signalId}, {status})
UpdateSignalStatus(id, status) ==
  /\ budget > 0
  /\ budget' = budget - 1
  /\ id \in DOMAIN signals
  /\ signals' = [signals EXCEPT ![id].status = status]
  /\ UNCHANGED <<now, created, trades, portfolio, req, lastPair, restVars>>

\* the TTL index { expiresAt: 1 }, expireAfterSeconds: 0: the store's
\* background task removes every document whose expiresAt has passed
ExpireDocuments ==
  /\ \E id \in DOMAIN signals : signals[id].expiresAt < now
  /\ signals' = [id \in {i \in DOMAIN signals : ~(signals[i].expiresAt < now)}
                   |-> signals[id]]
  /\ UNCHANGED <<now, created, trades, portfolio, req, lastPair, budget, restVars>>

\* router.get('/:id'): the response of a lookup by signalId
GetSignal(id) ==
  IF id \in DOMAIN signals THEN [code |-> 200, signal |-> <<signals[id]>>]
  ELSE [code |-> 404, signal |-> <<>>]

\* router.post('/') of trades, up to the lookup of the signal
CreateTradeFind(p, body) ==
  /\ budget > 0
  /\ budget' = budget - 1
  /\ req[p].pc = "idle"
  /\ Len(trades) < MaxTrades
  /\ body.signalId \in DOMAIN signals
  /\ signals[body.signalId].status = "active"
  /\ req' = [req EXCEPT ![p] =
               [IdleReq EXCEPT !.pc = "createSave", !.input = <<body>>,
                               !.loaded = <<signals[body.signalId]>>]]
  /\ UNCHANGED <<now, signals, created, trades, portfolio, lastPair, restVars>>

\* router.post('/') of trades: trade.save()
CreateTradeSave(p) ==
  /\ req[p].pc = "createSave"
  /\ Len(trades) < MaxTrades
  /\ trades' = Append(trades, NewTrade(req[p].input[1], req[p].loaded[1]))
  /\ req' = [req EXCEPT ![p] = IdleReq]
  /\ UNCHANGED <<now, signals, created, portfolio, lastPair, budget, restVars>>

\* router.post('/:id/execute'), up to the status check
ExecuteFind(p, tid, executedPrice) ==
  /\ budget > 0
  /\ budget' = budget - 1
  /\ req[p].pc = "idle"
  /\ tid \in 1..Len(trades)
  /\ trades[tid].status = "pending"
  /\ req' = [req EXCEPT ![p] =
               [IdleReq EXCEPT !.pc = "executeSave", !.tid = tid,
                               !.trade = <<trades[tid]>>,
                               !.input = <<executedPrice>>]]
  /\ UNCHANGED <<now, signals, created, trades, portfolio, lastPair, restVars>>

\* router.post('/:id/execute'): the assignments and trade.save()
ExecuteSave(p) ==
  /\ req[p].pc = "executeSave"
  /\ LET loaded == req[p].trade[1]
         local == ExecuteTrade(loaded, req[p].input[1])
     IN /\ trades' = [trades EXCEPT ![req[p].tid] = SaveTrade(@, loaded, local)]
        /\ req' = [req EXCEPT ![p].pc = "findPortfolio", ![p].trade = <<local>>]
  /\ UNCHANGED <<now, signals, created, portfolio, lastPair, budget, restVars>>

\* updatePortfolioWithTrade: Portfolio.findOne
PortfolioFind(p) ==
  /\ req[p].pc = "findPortfolio"
  /\ req' = [req EXCEPT ![p].pc = "savePortfolio", ![p].loaded = portfolio,
                        ![p].posId = <<req[p].tid, p>>]
  /\ UNCHANGED <<now, signals, created, trades, portfolio, lastPair, budget, restVars>>

\* what a portfolio request does to its loaded copy before it saves
LocalPortfolio(op, loaded) ==
  CASE op.kind = "fill" ->
         AddPosition(IF loaded = <<>> THEN NewPortfolio ELSE loaded[1],
                     PositionOf(op.trade[1], op.posId))
    [] op.kind = "close" -> ClosePosition(loaded[1], op.posId)
    [] op.kind = "refresh" -> UpdatePortfolioValue(loaded[1], op.feed[1])

\* the request as data: its kind and its inputs
OpOf(r) ==
  [kind |-> CASE r.pc = "savePortfolio" -> "fill"
              [] r.pc = "closeSave" -> "close"
              [] r.pc = "refreshSave" -> "refresh",
   trade |-> r.trade, posId |-> r.posId,
   feed |-> IF r.pc = "refreshSave" THEN r.input ELSE <<>>]

\* the save that ends a portfolio request.  A failed save is swallowed by
\* the catch of updatePortfolioWithTrade, or answered 500 by the routes.
\* History: every other request that holds a loaded portfolio sees this one
\* finish; two requests that loaded the same document and finished one after
\* the other are recorded in lastPair.
FinishPortfolio(p) ==
  LET r == req[p]
      op == OpOf(r)
      saved == SavePortfolio(portfolio, r.loaded, LocalPortfolio(op, r.loaded))
      mine == [op |-> op, base |-> r.loaded, alone |-> r.seen = <<>>]
  IN /\ portfolio' = saved.doc
     /\ req' = [q \in Procs |->
                  IF q = p THEN IdleReq
                  ELSE IF OnPortfolio(req[q]) /\ Len(req[q].seen) < 2
                  THEN [req[q] EXCEPT !.seen = Append(@, mine)]
                  ELSE req[q]]
     /\ lastPair' =
          IF /\ Len(r.seen) = 1
             /\ r.seen[1].alone
             /\ r.seen[1].base = r.loaded
          THEN <<[base |-> r.loaded, a |-> r.seen[1].op, b |-> op,
                  final |-> saved.doc]>>
          ELSE <<>>

\* updatePortfolioWithTrade: the position, the totals and portfolio.save()
PortfolioSave(p) ==
  /\ req[p].pc = "savePortfolio"
  /\ FinishPortfolio(p)
  /\ UNCHANGED <<now, signals, created, trades, budget, restVars>>

\* router.post('/:id/cancel'), up to the status check
CancelFind(p, tid) ==
  /\ budget > 0
  /\ budget' = budget - 1
  /\ req[p].pc = "idle"
  /\ tid \in 1..Len(trades)
  /\ trades[tid].status = "pending"
  /\ req' = [req EXCEPT ![p] =
               [IdleReq EXCEPT !.pc = "cancelSave", !.tid = tid,
                               !.trade = <<trades[tid]>>]]
  /\ UNCHANGED <<now, signals, created, trades, portfolio, lastPair, restVars>>

\* router.post('/:id/cancel'): trade.save()
CancelSave(p) ==
  /\ req[p].pc = "cancelSave"
  /\ LET loaded == req[p].trade[1]
     IN trades' = [trades EXCEPT
                     ![req[p].tid] = SaveTrade(@, loaded, CancelTrade(loaded))]
  /\ req' = [req EXCEPT ![p] = IdleReq]
  /\ UNCHANGED <<now, signals, created, portfolio, lastPair, budget, restVars>>

\* the stopLoss / takeProfit of a levels request: a number or undefined
LevelBodies ==
  { [stopLoss |-> 90, takeProfit |-> Undefined],
    [stopLoss |-> 90, takeProfit |-> 130] }

\* router.put('/:id/levels'), up to the lookup of the trade
LevelsFind(p, tid, stopLoss, takeProfit) ==
  /\ budget > 0
  /\ budget' = budget - 1
  /\ req[p].pc = "idle"
  /\ tid \in 1..Len(trades)
  /\ req' = [req EXCEPT ![p] =
               [IdleReq EXCEPT !.pc = "levelsSave", !.tid = tid,
                               !.trade = <<trades[tid]>>,
                               !.input = <<stopLoss, takeProfit>>]]
  /\ UNCHANGED <<now, signals, created, trades, portfolio, lastPair, restVars>>

\* router.put('/:id/levels'): trade.save()
LevelsSave(p) ==
  /\ req[p].pc = "levelsSave"
  /\ LET loaded == req[p].trade[1]
         local == UpdateLevels(loaded, req[p].input[1], req[p].input[2])
     IN trades' = [trades EXCEPT ![req[p].tid] = SaveTrade(@, loaded, local)]
  /\ req' = [req EXCEPT ![p] = IdleReq]
  /\ UNCHANGED <<now, signals, created, portfolio, lastPair, budget, restVars>>

\* router.delete('/positions/:positionId'), up to the lookup of the position
CloseFind(p, id) ==
  /\ budget > 0
  /\ budget' = budget - 1
  /\ req[p].pc = "idle"
  /\ portfolio # <<>>
  /\ HasPosition(portfolio[1], id)
  /\ req' = [req EXCEPT ![p] =
               [IdleReq EXCEPT !.pc = "closeSave", !.loaded = portfolio,
                               !.posId = id]]
  /\ UNCHANGED <<now, signals, created, trades, portfolio, lastPair, restVars>>

\* router.delete('/positions/:positionId'): the close and portfolio.save()
CloseSave(p) ==
  /\ req[p].pc = "closeSave"
  /\ FinishPortfolio(p)
  /\ UNCHANGED <<now, signals, created, trades, budget, restVars>>

\* refreshPortfolio(userId, currentPrices): the portfolio is loaded
RefreshFind(p, currentPrices) ==
  /\ budget > 0
  /\ budget' = budget - 1
  /\ req[p].pc = "idle"
  /\ portfolio # <<>>
  /\ req' = [req EXCEPT ![p] =
               [IdleReq EXCEPT !.pc = "refreshSave", !.loaded = portfolio,
                               !.input = <<currentPrices>>]]
  /\ UNCHANGED <<now, signals, created, trades, portfolio, lastPair, restVars>>

\* refreshPortfolio: updatePortfolioValue and the write back
RefreshSave(p) ==
  /\ req[p].pc = "refreshSave"
  /\ FinishPortfolio(p)
  /\ UNCHANGED <<now, signals, created, trades, budget, restVars>>

\* the signal and trade lifecycle: signals are stored, change status and
\* expire; trades are created against them, executed, cancelled and edited
Next ==
  \/ Tick
  \/ \E id \in SignalIds, body \in SignalBodies : CreateSignal(id, body)
  \/ \E id \in SignalIds, status \in SignalStatuses : UpdateSignalStatus(id, status)
  \/ ExpireDocuments
  \/ \E p \in Procs, body \in TradeBodies : CreateTradeFind(p, body)
  \/ \E p \in Procs : CreateTradeSave(p)
  \/ \E p \in Procs, tid \in 1..MaxTrades, xp \in ExecutedPrices :
       ExecuteFind(p, tid, xp)
  \/ \E p \in Procs : ExecuteSave(p)
  \/ \E p \in Procs : PortfolioFind(p)
  \/ \E p \in Procs : PortfolioSave(p)
  \/ \E p \in Procs, tid \in 1..MaxTrades : CancelFind(p, tid)
  \/ \E p \in Procs : CancelSave(p)
  \/ \E p \in Procs, tid \in 1..MaxTrades, body \in LevelBodies :
       LevelsFind(p, tid, body.stopLoss, body.takeProfit)
  \/ \E p \in Procs : LevelsSave(p)

Spec == Init /\ [][Next]_vars

\* the portfolio of a user with pending trades: the trades are executed,
\* positions are closed and the valuation is refreshed
PortfolioInit ==
  /\ now = 0
  /\ \E body \in SignalBodies : signals = [id \in SignalIds |-> NewSignal(body)]
  /\ created = SignalIds
  /\ \E bodies \in [1..MaxTrades -> TradeBodies] :
       trades = [t \in 1..MaxTrades |->
                   NewTrade(bodies[t], signals[bodies[t].signalId])]
  /\ portfolio = <<>>
  /\ req = [p \in Procs |-> IdleReq]
  /\ lastPair = <<>>
  /\ budget = MaxPortfolioRequests
  /\ RestIdle

PortfolioNext ==
  \/ \E p \in Procs, tid \in 1..MaxTrades, xp \in ExecutedPrices :
       ExecuteFind(p, tid, xp)
  \/ \E p \in Procs : ExecuteSave(p)
  \/ \E p \in Procs : PortfolioFind(p)
  \/ \E p \in Procs : PortfolioSave(p)
  \/ \E p \in Procs, tid \in 1..MaxTrades, q \in Procs : CloseFind(p, <<tid, q>>)
  \/ \E p \in Procs : CloseSave(p)
  \/ \E p \in Procs, feed \in PriceFeeds : RefreshFind(p, feed)
  \/ \E p \in Procs : RefreshSave(p)

SpecPortfolio == PortfolioInit /\ [][PortfolioNext]_vars

\* the execute route on pending buy trades of several sizes and leverages,
\* next to cancellations of the same trades
MaxFillSize == 2
MaxFillLeverage == 2
FillBodies ==
  [signalId : SignalIds, size : 1..MaxFillSize, price : Prices,
   side : {"buy"}, leverage : 1..MaxFillLeverage]

ExecuteInit ==
  /\ now = 0
  /\ \E body \in SignalBodies : signals = [id \in SignalIds |-> NewSignal(body)]
  /\ created = SignalIds
  /\ \E bodies \in [1..MaxTrades -> FillBodies] :
       trades = [t \in 1..MaxTrades |->
                   NewTrade(bodies[t], signals[bodies[t].signalId])]
  /\ portfolio = <<>>
  /\ req = [p \in Procs |-> IdleReq]
  /\ lastPair = <<>>
  /\ budget = MaxPortfolioRequests
  /\ RestIdle

ExecuteNext ==
  \/ \E p \in Procs, tid \in 1..MaxTrades, xp \in ExecutedPrices :
       ExecuteFind(p, tid, xp)
  \/ \E p \in Procs : ExecuteSave(p)
  \/ \E p \in Procs : PortfolioFind(p)
  \/ \E p \in Procs : PortfolioSave(p)
  \/ \E p \in Procs, tid \in 1..MaxTrades : CancelFind(p, tid)
  \/ \E p \in Procs : CancelSave(p)

SpecExecute == ExecuteInit /\ [][ExecuteNext]_vars

\* ------------------------------------------------------- signal scoring
\* AIService of services/aiService.  Math.random() is an input: the noise of
\* the confidence in units of 1/NoiseResolution, the index of the fallback
\* type, and the two rolls of getLeverage.
NoiseResolution == 2
BaseConfidence == 75

Includes(trend, word) ==
  CASE word = "strong" -> trend \in {"strong_bullish", "strong_bearish"}
    [] word = "bullish" -> trend \in {"strong_bullish", "bullish"}
    [] word = "bearish" -> trend \in {"strong_bearish", "bearish"}

DetermineTrend(data) ==
  LET priceChange24h == data.priceChange24h
      priceChange7d == data.priceChange7d
  IN IF priceChange24h > 5 /\ priceChange7d > 10 THEN "strong_bullish"
     ELSE IF priceChange24h > 2 /\ priceChange7d > 5 THEN "bullish"
     ELSE IF priceChange24h < -5 /\ priceChange7d < -10 THEN "strong_bearish"
     ELSE IF priceChange24h < -2 /\ priceChange7d < -5 THEN "bearish"
     ELSE "sideways"

Abs(x) == IF x < 0 THEN -x ELSE x

CalculateVolatility(data) ==
  LET priceChange24h == Abs(data.priceChange24h)
  IN IF priceChange24h > 10 THEN "high"
     ELSE IF priceChange24h > 5 THEN "medium"
     ELSE "low"

\* volume / (market_cap || 1) > num / den
VolumeRatioAbove(data, num, den) ==
  LET marketCap == IF data.marketCap = 0 THEN 1 ELSE data.marketCap
  IN data.volume * den > num * marketCap

CalculateMomentum(data) ==
  IF data.priceChange24h > 3 /\ VolumeRatioAbove(data, 1, 10) THEN "strong"
  ELSE IF data.priceChange24h > 1 /\ VolumeRatioAbove(data, 1, 20) THEN "moderate"
  ELSE "weak"

AnalyzeMarketData(data) ==
  [trend |-> DetermineTrend(data),
   volatility |-> CalculateVolatility(data),
   momentum |-> CalculateMomentum(data)]

SignalTypeList == <<"quick", "spot", "hodl", "degen">>

SelectSignalType(analysis, pick) ==
  IF analysis.volatility = "high" /\ analysis.momentum = "strong" THEN "degen"
  ELSE IF Includes(analysis.trend, "bullish") /\ analysis.volatility = "medium"
  THEN "quick"
  ELSE IF analysis.trend = "sideways" /\ analysis.momentum = "moderate" THEN "spot"
  ELSE IF Includes(analysis.trend, "bullish") /\ analysis.volatility = "low"
  THEN "hodl"
  ELSE SignalTypeList[pick + 1]

\* the confidence before rounding and clamping, in units of 1/NoiseResolution
RawConfidence(analysis, data, rnd) ==
  LET trendBonus == IF Includes(analysis.trend, "strong") THEN 15
                    ELSE IF Includes(analysis.trend, "bullish")
                            \/ Includes(analysis.trend, "bearish") THEN 10
                    ELSE 0
      momentumBonus == IF analysis.momentum = "strong" THEN 10
                       ELSE IF analysis.momentum = "moderate" THEN 5
                       ELSE 0
      volumeBonus == IF VolumeRatioAbove(data, 1, 10) THEN 10
                     ELSE IF VolumeRatioAbove(data, 1, 20) THEN 5
                     ELSE 0
  IN (BaseConfidence + trendBonus + momentumBonus + volumeBonus) * NoiseResolution
       + rnd

\* Math.round of x / NoiseResolution: the nearest integer, halves upwards
Round(x) == (2 * x + NoiseResolution) \div (2 * NoiseResolution)

Max(a, b) == IF a > b THEN a ELSE b
Min(a, b) == IF a < b THEN a ELSE b

UnclampedConfidence(analysis, data, rnd) ==
  Max(60, Round(RawConfidence(analysis, data, rnd)))

CalculateConfidence(analysis, data, rnd) ==
  Max(60, Min(95, Round(RawConfidence(analysis, data, rnd))))

DetermineAction(analysis, confidence) ==
  IF Includes(analysis.trend, "bullish") /\ confidence > 70 THEN "buy"
  ELSE IF Includes(analysis.trend, "bearish") /\ confidence > 70 THEN "sell"
  ELSE "hold"

GetRiskLevel(signalType, confidence) ==
  IF signalType = "degen" \/ confidence < 70 THEN "high"
  ELSE IF signalType = "quick" \/ confidence < 80 THEN "medium"
  ELSE "low"

\* roll3 = Math.floor(Math.random() * 3), roll5 = Math.floor(Math.random() * 5)
GetLeverage(signalType, roll3, roll5) ==
  CASE signalType = "quick" -> 3 + roll3
    [] signalType = "spot" -> 1
    [] signalType = "hodl" -> 1
    [] signalType = "degen" -> 5 + roll5

BaseSize(signalType) ==
  CASE signalType = "quick" -> 3
    [] signalType = "spot" -> 5
    [] signalType = "hodl" -> 10
    [] signalType = "degen" -> 2

\* the position size cut off with Math.floor
FloorPositionSize(signalType, confidence) ==
  (BaseSize(signalType) * confidence) \div 100

\* Math.round(baseSize[signalType] * (confidence / 100))
GetPositionSize(signalType, confidence) ==
  (2 * BaseSize(signalType) * confidence + 100) \div 200

\* currentPrice * (1 -+ 0.02)
CalculateStopLoss(currentPrice, action) ==
  IF action = "buy" THEN (currentPrice * 98) \div 100
  ELSE (currentPrice * 102) \div 100

TakeProfitPercent(signalType) ==
  CASE signalType = "quick" -> 5
    [] signalType = "spot" -> 3
    [] signalType = "hodl" -> 20
    [] signalType = "degen" -> 10

CalculateTakeProfit(currentPrice, action, signalType) ==
  IF action = "buy" THEN (currentPrice * (100 + TakeProfitPercent(signalType))) \div 100
  ELSE (currentPrice * (100 - TakeProfitPercent(signalType))) \div 100

MapTrend(trend) ==
  IF Includes(trend, "bullish") THEN "bullish"
  ELSE IF Includes(trend, "bearish") THEN "bearish"
  ELSE "sideways"

GetLiquidity(data) ==
  IF VolumeRatioAbove(data, 1, 10) THEN "high"
  ELSE IF VolumeRatioAbove(data, 1, 20) THEN "medium"
  ELSE "low"

\* generateSignal that also discards hold signals
GenerateActionable(data, analysis, rnd, pick, roll3, roll5) ==
  LET signalType == SelectSignalType(analysis, pick)
      confidence == CalculateConfidence(analysis, data, rnd)
      action == DetermineAction(analysis, confidence)
  IN IF confidence < 60 \/ action = "hold" THEN <<>>
     ELSE <<[type |-> signalType,
             action |-> action,
             confidence |-> confidence,
             riskLevel |-> GetRiskLevel(signalType, confidence),
             leverage |-> GetLeverage(signalType, roll3, roll5),
             positionSize |-> GetPositionSize(signalType, confidence),
             trend |-> MapTrend(analysis.trend),
             momentum |-> analysis.momentum,
             liquidity |-> GetLiquidity(data),
             entryPrice |-> data.price,
             stopLoss |-> CalculateStopLoss(data.price, action),
             takeProfit |-> CalculateTakeProfit(data.price, action, signalType),
             status |-> "active"]>>

\* AIService.generateSignal: <<>> for null
GenerateSignal(data, analysis, rnd, pick, roll3, roll5) ==
  LET signalType == SelectSignalType(analysis, pick)
      confidence == CalculateConfidence(analysis, data, rnd)
      action == DetermineAction(analysis, confidence)
  IN IF confidence < 60 THEN <<>>
     ELSE <<[type |-> signalType,
             action |-> action,
             confidence |-> confidence,
             riskLevel |-> GetRiskLevel(signalType, confidence),
             leverage |-> GetLeverage(signalType, roll3, roll5),
             positionSize |-> GetPositionSize(signalType, confidence),
             trend |-> MapTrend(analysis.trend),
             momentum |-> analysis.momentum,
             liquidity |-> GetLiquidity(data),
             entryPrice |-> data.price,
             stopLoss |-> CalculateStopLoss(data.price, action),
             takeProfit |-> CalculateTakeProfit(data.price, action, signalType),
             status |-> "active"]>>

\* ------------------------------------------------- persisting signals
\* the schema validators a generated signal can fail: asset.price is
\* required (current_price of the snapshot), signal.confidence is within
\* 0..100, signal.leverage and signal.positionSize within 1..100
ValidSignal(doc) ==
  /\ doc.entryPrice # Undefined
  /\ doc.confidence \in 0..100
  /\ doc.leverage \in 1..100
  /\ doc.positionSize \in 1..100
  /\ doc.type \in SignalTypes
  /\ doc.action \in {"buy", "sell", "hold"}
  /\ doc.status \in SignalStatuses

HasSignalId(docs, id) == \E i \in 1..Len(docs) : docs[i].signalId = id

\* document.save() of a new TradingSignal without the unique index
InsertUnchecked(docs, doc) ==
  IF ValidSignal(doc) THEN [ok |-> TRUE, docs |-> Append(docs, doc)]
  ELSE [ok |-> FALSE, docs |-> docs]

\* document.save() of a new TradingSignal: validation, then the insert,
\* which the unique index on signalId rejects for an id that is stored
InsertSignal(docs, doc) ==
  IF ValidSignal(doc) /\ ~HasSignalId(docs, doc.signalId)
  THEN [ok |-> TRUE, docs |-> Append(docs, doc)]
  ELSE [ok |-> FALSE, docs |-> docs]

\* signalId: `PI-${asset.symbol}-${Date.now()}`
SignalIdOf(symbol, timestamp) == <<"PI", symbol, timestamp>>

\* the signal object of generateSignal with its signalId
WithSignalId(signal, symbol, timestamp) ==
  [signalId |-> SignalIdOf(symbol, timestamp), symbol |-> symbol] @@ signal

\* the save loop of the job: await newSignal.save() for the next signal; a
\* rejected save throws out of the loop into the catch of the job
SaveSignal ==
  /\ reply = "saving"
  /\ cursor <= Len(batch)
  /\ LET r == InsertSignal(stored, batch[cursor])
     IN IF r.ok
        THEN /\ stored' = r.docs
             /\ cursor' = cursor + 1
             /\ reply' = reply
        ELSE /\ reply' = "failed"
             /\ UNCHANGED <<stored, cursor>>
  /\ UNCHANGED <<dbVars, scoreVars, batch, posted, sideVars>>

\* the end of the job: the loop is over, the success response is sent
FinishBatch ==
  /\ reply = "saving"
  /\ cursor > Len(batch)
  /\ reply' = "ok"
  /\ UNCHANGED <<dbVars, scoreVars, stored, batch, cursor, posted, sideVars>>

\* the market snapshots that are scored
MarketSnapshots ==
  [priceChange24h : {-12, -6, -3, 2, 4, 6, 12},
   priceChange7d : {-12, -6, 6, 12},
   volume : {0, 6, 15},
   marketCap : {0, 100},
   price : {100}]

\* (Math.random() - 0.5) * 20, in units of 1/NoiseResolution
Noises == (-10 * NoiseResolution)..(10 * NoiseResolution)

\* the asset whose snapshot is scored
ScoredSymbol == "BTC"

ScoreInit ==
  /\ DbInit
  /\ marketData \in MarketSnapshots
  /\ noise = 0
  /\ generated = <<>>
  /\ scored = FALSE
  /\ BatchIdle
  /\ SideIdle

\* generateAISignals, for one asset: analyzeMarketData, then generateSignal;
\* what is returned goes to the save loop of the job
Generate(rnd, pick, roll3, roll5) ==
  /\ ~scored
  /\ scored' = TRUE
  /\ noise' = rnd
  /\ generated' = GenerateSignal(marketData, AnalyzeMarketData(marketData),
                                 rnd, pick, roll3, roll5)
  /\ batch' = [i \in 1..Len(generated') |->
                 WithSignalId(generated'[i], ScoredSymbol, now)]
  /\ cursor' = 1
  /\ reply' = "saving"
  /\ UNCHANGED <<marketData, dbVars, stored, posted, sideVars>>

ScoreNext ==
  \/ \E rnd \in Noises, pick \in 0..3, roll3 \in 0..2, roll5 \in 0..4 :
       Generate(rnd, pick, roll3, roll5)
  \/ SaveSignal
  \/ FinishBatch

SpecScore == ScoreInit /\ [][ScoreNext]_vars

\* ------------------------------------------------- the generation job
MaxBatch == 2
MaxBatches == 3

BatchSymbols == {"BTC", "ETH"}
\* the assets of the market data: current_price is a price or missing
BatchAssets == [symbol : BatchSymbols, price : {Undefined, 100}]
BatchLists == UNION {[1..n -> BatchAssets] : n \in 1..MaxBatch}

\* the market data of an asset of the job: strongly rising on high volume
AssetSnapshot(asset) ==
  [priceChange24h |-> 6, priceChange7d |-> 12, volume |-> 15,
   marketCap |-> 100, price |-> asset.price]

\* the signal generateSignal returns for the asset at Date.now() = timestamp
BatchSignal(asset, timestamp) ==
  LET data == AssetSnapshot(asset)
  IN WithSignalId(GenerateSignal(data, AnalyzeMarketData(data), 0, 0, 0, 0)[1],
                  asset.symbol, timestamp)

\* router.post('/generate-signals') and the periodic job, up to the save
\* loop: generateAISignals builds one signal per asset
StartBatch(assets) ==
  /\ budget > 0
  /\ budget' = budget - 1
  /\ reply # "saving"
  /\ batch' = [i \in 1..Len(assets) |-> BatchSignal(assets[i], now)]
  /\ cursor' = 1
  /\ reply' = "saving"
  /\ UNCHANGED <<now, signals, created, trades, portfolio, req, lastPair,
                 scoreVars, stored, posted, sideVars>>

\* router.post('/') of signals: new TradingSignal(req.body).save(), 201 or 500
PostSignal(doc) ==
  /\ budget > 0
  /\ budget' = budget - 1
  /\ LET r == InsertSignal(stored, doc)
     IN /\ stored' = r.docs
        /\ posted' = <<[doc |-> doc, code |-> IF r.ok THEN 201 ELSE 500]>>
  /\ UNCHANGED <<now, signals, created, trades, portfolio, req, lastPair,
                 scoreVars, batch, cursor, reply, sideVars>>

BatchInit ==
  /\ now = 0
  /\ signals = <<>>
  /\ created = {}
  /\ trades = <<>>
  /\ portfolio = <<>>
  /\ req = [p \in Procs |-> IdleReq]
  /\ lastPair = <<>>
  /\ budget = MaxBatches
  /\ RestIdle

BatchNext ==
  \/ Tick
  \/ \E assets \in BatchLists : StartBatch(assets)
  \/ SaveSignal
  \/ FinishBatch
  \/ \E asset \in BatchAssets, t \in 0..MaxTime : PostSignal(BatchSignal(asset, t))

SpecBatch == BatchInit /\ [][BatchNext]_vars

\* ------------------------------------------------------- MarketService
MaxVersions == 2
\* response.data of the upstream API
MarketVersions == 1..MaxVersions
\* what the upstream API answers: data, HTTP 429, or another failure
Outcomes == {<<200, v>> : v \in MarketVersions} \cup {<<429, 0>>, <<500, 0>>}

\* the empty fallback of getMarketData: []
EmptyData == 0

\* rateLimitedRequest up to its first await: wait for the rest of the
\* interval, or stamp lastRequestTime and send the request
EnterRequest(call) ==
  IF sinceRequest < RequestInterval
  THEN [call EXCEPT !.pc = "throttled", !.timer = RequestInterval - sinceRequest]
  ELSE [call EXCEPT !.pc = "inflight", !.timer = 0]

\* getMarketData up to its first await: a fresh cached value is returned,
\* otherwise rateLimitedRequest is entered
CallMarketData(p) ==
  /\ mcall[p].pc = "idle"
  /\ IF mcache # <<>> /\ mcache[1].fresh
     THEN /\ mcall' = [mcall EXCEPT ![p] =
                         [IdleCall EXCEPT !.pc = "done",
                                          !.result = <<mcache[1].data>>]]
          /\ UNCHANGED sinceRequest
     ELSE LET cached == IF mcache = <<>> THEN <<>> ELSE <<mcache[1].data>>
              call == EnterRequest([IdleCall EXCEPT !.cached = cached])
          IN /\ mcall' = [mcall EXCEPT ![p] = call]
             /\ sinceRequest' = IF call.pc = "inflight" THEN 0 ELSE sinceRequest
  /\ UNCHANGED <<mcache, offMarket>>

\* the setTimeout of the rate limit has fired: lastRequestTime = Date.now()
\* and the request is sent
ThrottleDone(p) ==
  /\ mcall[p].pc = "throttled"
  /\ mcall[p].timer = 0
  /\ mcall' = [mcall EXCEPT ![p].pc = "inflight"]
  /\ sinceRequest' = 0
  /\ UNCHANGED <<mcache, offMarket>>

\* the upstream answers: the data is cached and returned; on 429 the call
\* waits and will call rateLimitedRequest again; any other failure is thrown
\* to getMarketData, which returns the value it read from the cache or []
Respond(p, outcome) ==
  /\ mcall[p].pc = "inflight"
  /\ CASE outcome[1] = 200 ->
            /\ mcache' = <<[data |-> outcome[2], fresh |-> TRUE]>>
            /\ mcall' = [mcall EXCEPT ![p].pc = "done",
                                      ![p].result = <<outcome[2]>>]
       [] outcome[1] = 429 ->
            /\ mcall' = [mcall EXCEPT ![p].pc = "backoff",
                                      ![p].timer = BackoffDelay]
            /\ UNCHANGED mcache
       [] OTHER ->
            /\ mcall' = [mcall EXCEPT
                           ![p].pc = "done",
                           ![p].result = IF mcall[p].cached = <<>>
                                         THEN <<EmptyData>>
                                         ELSE mcall[p].cached]
            /\ UNCHANGED mcache
  /\ UNCHANGED <<sinceRequest, offMarket>>

\* the 30 second wait is over: return this.rateLimitedRequest(url, options)
BackoffDone(p) ==
  /\ mcall[p].pc = "backoff"
  /\ mcall[p].timer = 0
  /\ LET call == EnterRequest(mcall[p])
     IN /\ mcall' = [mcall EXCEPT ![p] = call]
        /\ sinceRequest' = IF call.pc = "inflight" THEN 0 ELSE sinceRequest
  /\ UNCHANGED <<mcache, offMarket>>

\* the caller has the value getMarketData returned
ReturnMarketData(p) ==
  /\ mcall[p].pc = "done"
  /\ mcall' = [mcall EXCEPT ![p] = IdleCall]
  /\ UNCHANGED <<mcache, sinceRequest, offMarket>>

Waiting(p) == mcall[p].pc \in {"throttled", "backoff"}

\* d seconds pass: no pending timer is overrun
Advance(d) ==
  /\ \A p \in Procs : Waiting(p) => mcall[p].timer >= d
  /\ \/ sinceRequest < RequestInterval
     \/ \E p \in Procs : Waiting(p)
  /\ sinceRequest' = Min(sinceRequest + d, RequestInterval)
  /\ mcall' = [p \in Procs |->
                 IF Waiting(p) THEN [mcall[p] EXCEPT !.timer = @ - d]
                 ELSE mcall[p]]
  /\ UNCHANGED <<mcache, offMarket>>

\* Date.now() - cached.timestamp reaches this.cacheTimeout
CacheExpires ==
  /\ mcache # <<>>
  /\ mcache[1].fresh
  /\ mcache' = <<[mcache[1] EXCEPT !.fresh = FALSE]>>
  /\ UNCHANGED <<sinceRequest, mcall, offMarket>>

MarketInit == DbInit /\ RestIdle

MarketNext ==
  \/ \E p \in Procs : CallMarketData(p)
  \/ \E p \in Procs : ThrottleDone(p)
  \/ \E p \in Procs, outcome \in Outcomes : Respond(p, outcome)
  \/ \E p \in Procs : BackoffDone(p)
  \/ \E p \in Procs : ReturnMarketData(p)
  \/ \E d \in {1, BackoffDelay} : Advance(d)
  \/ CacheExpires

SpecMarket == MarketInit /\ [][MarketNext]_vars

\* timers fire, time passes while a timer is pending, and the upstream
\* answers every request it receives, with whatever outcome
MarketFairness ==
  /\ WF_vars(\E d \in {1, BackoffDelay} : Advance(d))
  /\ \A p \in Procs :
       /\ WF_vars(ThrottleDone(p))
       /\ WF_vars(BackoffDone(p))
       /\ WF_vars(\E outcome \in Outcomes : Respond(p, outcome))

SpecMarketLive == SpecMarket /\ MarketFairness

\* ------------------------------------------ backend server signal cache
MaxArrays == 3
MaxManual == 2

\* the ids of manual signals and the lists the signal generation returns
ManualIds == 1..MaxManual
GeneratedId == 11
GeneratedLists == {<<>>, <<GeneratedId>>}

\* array.findIndex(s => s.id === id) and array.splice(index, 1)
RECURSIVE RemoveFirst(_, _)
RemoveFirst(array, id) ==
  IF array = <<>> THEN <<>>
  ELSE IF Head(array) = id THEN Tail(array)
  ELSE <<Head(array)>> \o RemoveFirst(Tail(array), id)

InArray(array, id) == \E i \in 1..Len(array) : array[i] = id

\* getTradingSignals up to its first await: a fresh cache answers with the
\* cached array itself, otherwise the signals are generated
GetTradingSignals(p) ==
  /\ tsCall[p] = "idle"
  /\ IF tradingSignalsCache.fresh
     THEN /\ handed' = IF tradingSignalsCache.data = Null THEN handed
                       ELSE <<[ref |-> tradingSignalsCache.data,
                               value |-> heap[tradingSignalsCache.data]]>>
          /\ UNCHANGED tsCall
     ELSE /\ Len(heap) < MaxArrays
          /\ tsCall' = [tsCall EXCEPT ![p] = "generating"]
          /\ UNCHANGED handed
  /\ UNCHANGED <<heap, tradingSignalsCache, manualSignals, offCache>>

\* getTradingSignals after the generation: the manual signals are pushed onto
\* the new array, the array is put in the cache and returned
FinishTradingSignals(p, generatedList) ==
  /\ tsCall[p] = "generating"
  /\ Len(heap) < MaxArrays
  /\ LET ref == Len(heap) + 1
         value == generatedList \o manualSignals
     IN /\ heap' = Append(heap, value)
        /\ tradingSignalsCache' = [data |-> ref, fresh |-> TRUE]
        /\ handed' = <<[ref |-> ref, value |-> value]>>
  /\ tsCall' = [tsCall EXCEPT ![p] = "idle"]
  /\ UNCHANGED <<manualSignals, offCache>>

\* addManualSignal: manualSignals.push and tradingSignalsCache.data.push
AddManualSignal(id) ==
  /\ ~InArray(manualSignals, id)
  /\ manualSignals' = Append(manualSignals, id)
  /\ heap' = IF tradingSignalsCache.data = Null THEN heap
             ELSE [heap EXCEPT ![tradingSignalsCache.data] = Append(@, id)]
  /\ UNCHANGED <<tradingSignalsCache, tsCall, handed, offCache>>

\* deleteSignal: splice from manualSignals and from tradingSignalsCache.data
DeleteSignal(id) ==
  /\ manualSignals' = RemoveFirst(manualSignals, id)
  /\ heap' = IF tradingSignalsCache.data = Null THEN heap
             ELSE [heap EXCEPT ![tradingSignalsCache.data] = RemoveFirst(@, id)]
  /\ UNCHANGED <<tradingSignalsCache, tsCall, handed, offCache>>

\* now - tradingSignalsCache.timestamp reaches the TTL
TradingSignalsExpire ==
  /\ tradingSignalsCache.fresh
  /\ tradingSignalsCache' = [tradingSignalsCache EXCEPT !.fresh = FALSE]
  /\ UNCHANGED <<heap, manualSignals, tsCall, handed, offCache>>

CacheInit == DbInit /\ RestIdle

CacheNext ==
  \/ \E p \in Procs : GetTradingSignals(p)
  \/ \E p \in Procs, list \in GeneratedLists : FinishTradingSignals(p, list)
  \/ \E id \in ManualIds : AddManualSignal(id)
  \/ \E id \in ManualIds \cup {GeneratedId} : DeleteSignal(id)
  \/ TradingSignalsExpire

SpecCache == CacheInit /\ [][CacheNext]_vars

\* getTradingSignals when the generation rejects (the market-data fetch
\* fails): the catch returns a new empty array and leaves the cache alone
FailTradingSignals(p) ==
  /\ tsCall[p] = "generating"
  /\ handed' = <<[ref |-> Null, value |-> <<>>]>>
  /\ tsCall' = [tsCall EXCEPT ![p] = "idle"]
  /\ UNCHANGED <<heap, tradingSignalsCache, manualSignals, offCache>>

\* clearAllSignals: manualSignals = [], tradingSignalsCache.data = [] and
\* timestamp = 0
ClearAllSignals ==
  /\ Len(heap) < MaxArrays
  /\ manualSignals' = <<>>
  /\ heap' = Append(heap, <<>>)
  /\ tradingSignalsCache' = [data |-> Len(heap) + 1, fresh |-> FALSE]
  /\ UNCHANGED <<tsCall, handed, offCache>>

\* updateMarketData: tradingSignalsCache.data = null and timestamp = 0
UpdateMarketData ==
  /\ tradingSignalsCache' = [data |-> Null, fresh |-> FALSE]
  /\ UNCHANGED <<heap, manualSignals, tsCall, handed, offCache>>

SignalsNext ==
  \/ CacheNext
  \/ \E p \in Procs : FailTradingSignals(p)
  \/ ClearAllSignals
  \/ UpdateMarketData

SpecSignals == CacheInit /\ [][SignalsNext]_vars

\* ------------------------------------------------- allocation and exposure
\* PortfolioService.calculatePortfolioMetrics and the Portfolio document's
\* methods, applied to one positions list.
MaxPositions == 3
PositionSymbols == {"BTC", "btc", "ETH", "SOL", "ADA"}
PositionValues == {100, 300}
PositionChoices ==
  [type : SignalTypes, symbol : PositionSymbols, value : PositionValues]

\* PortfolioService.calculatePortfolioMetrics: the allocation and exposure
\* of the metrics it returns
ServiceMetrics(positions) ==
  IF Len(positions) = 0
  THEN [allocation |-> ZeroAllocation, exposure |-> ZeroExposure]
  ELSE LET totalValue == SumField(positions, "value")
       IN [allocation |-> ServiceAllocation(positions, totalValue),
           exposure |-> ServiceExposure(positions, totalValue)]

\* a new Portfolio document given the positions, after calculateAllocation()
\* and calculateExposure()
DocumentMetrics(positions) ==
  LET doc == CalculateExposure(CalculateAllocation(
               [NewPortfolio EXCEPT !.positions = positions]))
  IN [allocation |-> doc.allocation, exposure |-> doc.exposure]

ComputeMetrics ==
  /\ metrics = <<>>
  /\ metrics' = <<[service |-> ServiceMetrics(plist),
                   document |-> DocumentMetrics(plist)]>>
  /\ UNCHANGED <<plist, returns, sharpe, sizing, sized, offCalc>>

AllocInit ==
  /\ DbInit /\ ScoreIdle /\ BatchIdle /\ MarketIdle /\ CacheIdle /\ SharpeIdle
  /\ ListIdle
  /\ SizeIdle
  /\ CronIdle
  /\ \E n \in 0..MaxPositions : plist \in [1..n -> PositionChoices]
  /\ metrics = <<>>

AllocNext == ComputeMetrics

SpecAlloc == AllocInit /\ [][AllocNext]_vars

\* ------------------------------------------------------------ Sharpe ratio
\* PortfolioService.calculateSharpeRatio on JavaScript numbers.  A number is
\* a binary floating-point value with MantissaBits significant bits (53 in
\* an IEEE double), held as a whole count of quanta, Quantum to the unit (the
\* smallest positive value of the format is one quantum).  Every operation
\* returns the representable value nearest to the exact result, ties to even.
MantissaBits == 4
Quantum == 256
MaxReturns == 3
\* the largest integer whose square is a machine integer of the model
MaxRoot == 46340

RECURSIVE Pow2(_)
Pow2(n) == IF n = 0 THEN 1 ELSE 2 * Pow2(n - 1)

Sgn(x) == IF x < 0 THEN -1 ELSE 1

RECURSIVE UlpOf(_, _, _)
\* the spacing of the representable values around num / den: the smallest
\* power of two u, from `u` on, with num / den < 2^MantissaBits * u
UlpOf(num, den, u) ==
  IF num < Pow2(MantissaBits) * u * den THEN u ELSE UlpOf(num, den, 2 * u)

\* the representable value nearest to num / den, den > 0
RoundQuotient(num, den) ==
  LET a == Abs(num)
      u == UlpOf(a, den, 1)
      fl == a \div (den * u)
      rem == a % (den * u)
      up == \/ 2 * rem > den * u
            \/ 2 * rem = den * u /\ fl % 2 = 1
  IN Sgn(num) * (IF up THEN fl + 1 ELSE fl) * u

\* a numeric literal or an array length k, and the literal num / den
FromNumber(k) == RoundQuotient(k * Quantum, 1)
FromRatio(num, den) == RoundQuotient(num * Quantum, den)

FAdd(x, y) == RoundQuotient(x + y, 1)
FSub(x, y) == RoundQuotient(x - y, 1)
FMul(x, y) == RoundQuotient(x * y, Quantum)
FDiv(x, y) == Sgn(y) * RoundQuotient(x * Quantum, Abs(y))

RECURSIVE RootIn(_, _, _)
\* the largest k in lo..hi with k * k <= n
RootIn(n, lo, hi) ==
  IF lo = hi THEN lo
  ELSE LET mid == (lo + hi + 1) \div 2
       IN IF mid * mid <= n THEN RootIn(n, mid, hi) ELSE RootIn(n, lo, mid - 1)

\* Math.sqrt
FSqrt(x) ==
  LET n == x * Quantum
      root == RootIn(n, 0, MaxRoot)
      u == UlpOf(root, 1, 1)
      fl == root \div u
      mid == (2 * fl + 1) * u
      up == \/ 4 * n > mid * mid
            \/ 4 * n = mid * mid /\ fl % 2 = 1
  IN (IF up THEN fl + 1 ELSE fl) * u

RECURSIVE SumReturns(_, _)
\* returns.reduce((sum, r) => sum + r, 0)
SumReturns(rs, sum) ==
  IF rs = <<>> THEN sum ELSE SumReturns(Tail(rs), FAdd(sum, Head(rs)))

RECURSIVE SumSquares(_, _, _)
\* returns.reduce((sum, r) => sum + Math.pow(r - avgReturn, 2), 0)
SumSquares(rs, avgReturn, sum) ==
  IF rs = <<>> THEN sum
  ELSE LET d == FSub(Head(rs), avgReturn)
       IN SumSquares(Tail(rs), avgReturn, FAdd(sum, FMul(d, d)))

\* this.riskFreeRate = 0.02
RiskFreeRate == FromRatio(2, 100)

\* PortfolioService.calculateSharpeRatio(returns)
CalculateSharpeRatio(rs) ==
  IF Len(rs) = 0 THEN 0
  ELSE LET length == FromNumber(Len(rs))
           avgReturn == FDiv(SumReturns(rs, 0), length)
           variance == FDiv(SumSquares(rs, avgReturn, 0), length)
           stdDev == FSqrt(variance)
       IN IF stdDev = 0 THEN 0
          ELSE LET annualizedReturn == FMul(avgReturn, FromNumber(365))
                   annualizedStdDev == FMul(stdDev, FSqrt(FromNumber(365)))
               IN FDiv(FSub(annualizedReturn,
                            FMul(RiskFreeRate, FromNumber(100))),
                       annualizedStdDev)

\* the returnPercent values of the filled trades: the whole numbers of
\* percent with a full mantissa, of either sign
ReturnValues ==
  {sign * m * Quantum : sign \in {-1, 1},
                        m \in Pow2(MantissaBits - 1)..(Pow2(MantissaBits) - 1)}

ComputeSharpe ==
  /\ sharpe = <<>>
  /\ sharpe' = <<CalculateSharpeRatio(returns)>>
  /\ UNCHANGED <<returns, plist, metrics, sizing, sized, offCalc>>

SharpeInit ==
  /\ DbInit /\ ScoreIdle /\ BatchIdle /\ MarketIdle /\ CacheIdle /\ AllocIdle
  /\ ListIdle
  /\ SizeIdle
  /\ CronIdle
  /\ \E n \in 0..MaxReturns : returns \in [1..n -> ReturnValues]
  /\ sharpe = <<>>

SharpeNext == ComputeSharpe

SpecSharpe == SharpeInit /\ [][SharpeNext]_vars

\* ------------------------------------------------------ portfolio report
\* PortfolioService.getEmptyMetrics: the totals it returns
GetEmptyMetrics ==
  [totalValue |-> 0, totalInvested |-> 0, unrealizedPnL |-> 0,
   realizedPnL |-> 0, totalPnL |-> 0,
   allocation |-> ZeroAllocation, exposure |-> ZeroExposure]

\* PortfolioService.calculatePortfolioMetrics: the totals, the allocation and
\* the exposure of the metrics it returns
CalculatePortfolioMetrics(p) ==
  IF Len(p.positions) = 0 THEN GetEmptyMetrics
  ELSE LET realizedPnL == p.realizedPnL
           totalUnrealizedPnL == SumField(p.positions, "unrealizedPnL")
           maps == ServiceMetrics(p.positions)
       IN [totalValue |-> SumField(p.positions, "value"),
           totalInvested |-> SumField(p.positions, "invested"),
           unrealizedPnL |-> totalUnrealizedPnL,
           realizedPnL |-> realizedPnL,
           totalPnL |-> realizedPnL + totalUnrealizedPnL,
           allocation |-> maps.allocation, exposure |-> maps.exposure]

\* router.get('/') of the portfolio routes: 404 without a portfolio,
\* otherwise the stored document and its metrics
GetPortfolio ==
  /\ portfolio # <<>>
  /\ report' = <<[portfolio |-> portfolio[1],
                  metrics |-> CalculatePortfolioMetrics(portfolio[1])]>>
  /\ UNCHANGED <<dbVars, offReport>>

ReportNext ==
  \/ \E p \in Procs, tid \in 1..MaxTrades, xp \in ExecutedPrices :
       ExecuteFind(p, tid, xp)
  \/ \E p \in Procs : ExecuteSave(p)
  \/ \E p \in Procs : PortfolioFind(p)
  \/ \E p \in Procs : PortfolioSave(p)
  \/ \E p \in Procs, tid \in 1..MaxTrades, q \in Procs : CloseFind(p, <<tid, q>>)
  \/ \E p \in Procs : CloseSave(p)
  \/ GetPortfolio

SpecReport == PortfolioInit /\ [][ReportNext]_vars

\* ------------------------------------------------------- signal listings
\* The routes that list active signals.  A listing answers with the stored
\* documents that pass its filter at the time of the query; .sort and .limit
\* only order and shorten that answer.
Answer(endpoint, filter(_)) ==
  listed' = <<[endpoint |-> endpoint, at |-> now,
               docs |-> {[id |-> id, doc |-> signals[id]] :
                           id \in {i \in DOMAIN signals : filter(signals[i])}}]>>

\* { status: 'active', expiresAt: { $gt: new Date() } }
ActiveUnexpired(doc) == doc.status = "active" /\ doc.expiresAt > now

\* router.get('/active/all')
ListActive ==
  /\ Answer("active/all", ActiveUnexpired)
  /\ UNCHANGED <<dbVars, offList>>

\* router.get('/type/:type')
ListByType(type) ==
  /\ Answer("type", LAMBDA doc : doc.type = type /\ ActiveUnexpired(doc))
  /\ UNCHANGED <<dbVars, offList>>

\* router.get('/feed/live')
FeedLive(typeArray, minConfidence) ==
  /\ Answer("feed/live",
            LAMBDA doc : /\ doc.type \in typeArray
                         /\ ActiveUnexpired(doc)
                         /\ doc.confidence >= minConfidence)
  /\ UNCHANGED <<dbVars, offList>>

\* the search words in use: none, or one that the regex with option 'i'
\* finds in the symbol BTC
SearchWords == {"", "btc"}

\* router.get('/search'): the filter starts as { status: 'active' } and gets
\* a condition for each parameter that is given
SearchFilter(doc, q, type, minConfidence, maxConfidence) ==
  /\ doc.status = "active"
  /\ q # "" => ToLowerCase(doc.symbol) = q
  /\ type # "" => doc.type = type
  /\ minConfidence # Undefined => doc.confidence >= minConfidence
  /\ maxConfidence # Undefined => doc.confidence <= maxConfidence

Search(q, type, minConfidence, maxConfidence) ==
  /\ Answer("search",
            LAMBDA doc : SearchFilter(doc, q, type, minConfidence, maxConfidence))
  /\ UNCHANGED <<dbVars, offList>>

\* router.get('/recommendations') of the AI routes
RecommendationFilter(doc, riskTolerance) ==
  /\ ActiveUnexpired(doc)
  /\ CASE riskTolerance = "low" ->
             doc.riskLevel = "low" /\ doc.confidence >= 80
        [] riskTolerance = "high" ->
             doc.riskLevel \in {"medium", "high"} /\ doc.confidence >= 70
        [] OTHER ->
             doc.riskLevel \in {"low", "medium"} /\ doc.confidence >= 75

Recommendations(riskTolerance) ==
  /\ Answer("recommendations",
            LAMBDA doc : RecommendationFilter(doc, riskTolerance))
  /\ UNCHANGED <<dbVars, offList>>

ListInit == DbInit /\ RestIdle

ListNext ==
  \/ Tick
  \/ \E id \in SignalIds, body \in SignalBodies : CreateSignal(id, body)
  \/ \E id \in SignalIds, status \in SignalStatuses : UpdateSignalStatus(id, status)
  \/ ExpireDocuments
  \/ ListActive
  \/ \E type \in SignalTypes : ListByType(type)
  \/ \E typeArray \in {SignalTypes, {"quick"}}, minConfidence \in {70, 80} :
       FeedLive(typeArray, minConfidence)
  \/ \E q \in SearchWords, type \in {"", "hodl"},
        minConfidence \in {Undefined, 80}, maxConfidence \in {Undefined, 80} :
       Search(q, type, minConfidence, maxConfidence)
  \/ \E riskTolerance \in {"low", "medium", "high"} :
       Recommendations(riskTolerance)

SpecList == ListInit /\ [][ListNext]_vars

\* ------------------------------------------------- leverage and position size
\* AIService.getLeverage and getPositionSize for one signal type and one
\* confidence that calculateConfidence can return, and the range validators
\* of the signal schema on the two results.
MinConfidence == 60
MaxConfidence == 95
Confidences == MinConfidence..MaxConfidence
SizingInputs ==
  [type : SignalTypes, confidence : Confidences, roll3 : 0..2, roll5 : 0..4]

\* the schema's min: 1, max: 100 on signal.leverage and signal.positionSize
InSchemaRange(leverage, positionSize) ==
  leverage \in 1..100 /\ positionSize \in 1..100

ComputeSize ==
  /\ sized = <<>>
  /\ sizing # <<>>
  /\ LET in == sizing[1]
         leverage == GetLeverage(in.type, in.roll3, in.roll5)
         positionSize == GetPositionSize(in.type, in.confidence)
     IN sized' = <<[leverage |-> leverage, positionSize |-> positionSize,
                    accepted |-> InSchemaRange(leverage, positionSize)]>>
  /\ UNCHANGED <<sizing, plist, metrics, returns, sharpe, offCalc>>

SizeInit ==
  /\ DbInit /\ ScoreIdle /\ BatchIdle /\ MarketIdle /\ CacheIdle
  /\ AllocIdle /\ SharpeIdle /\ ListIdle /\ CronIdle
  /\ \E in \in SizingInputs : sizing = <<in>>
  /\ sized = <<>>

SizeNext == ComputeSize

SpecSize == SizeInit /\ [][SizeNext]_vars

\* ------------------------------------------------- the cron job of workers
\* src/server/index.js: in production the master forks one worker per CPU and
\* every worker schedules the same '*/5 * * * *' job. The job takes a Redis
\* lock with SET key 'locked' PX 60000 NX when a Redis client is configured.
\* Time is counted in minutes.
NumWorkers == 2
Workers == 1..NumWorkers
MaxClock == 5
\* '*/5 * * * *'
TickMinutes == 5
\* PX 60000
LockMinutes == 1

TickOf(minute) == minute \div TickMinutes + 1

\* the callback of the schedule starts in worker w: with a client it sends
\* the SET, without one it goes straight to generateAISignals
CronTick(w) ==
  /\ clock % TickMinutes = 0
  /\ job[w].pc = "idle"
  /\ job[w].tick < TickOf(clock)
  /\ LET tick == TickOf(clock)
     IN IF redisClient
        THEN /\ job' = [job EXCEPT ![w] =
                        [pc |-> "set", tick |-> tick, saved |-> FALSE]]
             /\ UNCHANGED executed
        ELSE /\ job' = [job EXCEPT ![w] =
                        [pc |-> "generate", tick |-> tick, saved |-> FALSE]]
             /\ executed' = executed \cup
                  {[worker |-> w, tick |-> tick, at |-> clock]}
  /\ UNCHANGED <<clock, redisClient, lockUntil, skipped, offCron>>

\* the SET without NX: it overwrites the key and always answers OK
RedisSetAlways(w) ==
  /\ job[w].pc = "set"
  /\ lockUntil' = clock + LockMinutes
  /\ job' = [job EXCEPT ![w].pc = "generate"]
  /\ executed' = executed \cup
       {[worker |-> w, tick |-> job[w].tick, at |-> clock]}
  /\ UNCHANGED <<clock, redisClient, skipped, offCron>>

\* the SET of worker w reaches Redis and is answered: OK when the key is
\* absent or has expired (the key then lives for 60 s), null otherwise; on
\* null the callback logs and returns
RedisSet(w) ==
  /\ job[w].pc = "set"
  /\ IF clock >= lockUntil
     THEN /\ lockUntil' = clock + LockMinutes
          /\ job' = [job EXCEPT ![w].pc = "generate"]
          /\ executed' = executed \cup
               {[worker |-> w, tick |-> job[w].tick, at |-> clock]}
          /\ UNCHANGED skipped
     ELSE /\ job' = [job EXCEPT ![w].pc = "idle"]
          /\ skipped' = skipped \cup {[worker |-> w, tick |-> job[w].tick]}
          /\ UNCHANGED <<lockUntil, executed>>
  /\ UNCHANGED <<clock, redisClient, offCron>>

\* the SET rejects (no connection after maxRetriesPerRequest): the catch logs
RedisError(w) ==
  /\ job[w].pc = "set"
  /\ job' = [job EXCEPT ![w].pc = "idle"]
  /\ UNCHANGED <<clock, redisClient, lockUntil, executed, skipped, offCron>>

\* generateAISignals resolves, or rejects into the catch
GenerateAISignals(w) ==
  /\ job[w].pc = "generate"
  /\ \E ok \in BOOLEAN :
       job' = [job EXCEPT ![w].pc = IF ok THEN "save" ELSE "idle"]
  /\ UNCHANGED <<clock, redisClient, lockUntil, executed, skipped, offCron>>

\* the loop of saves and the emit to the 'signals' room
SaveSignals(w) ==
  /\ job[w].pc = "save"
  /\ job' = [job EXCEPT ![w].pc = "idle", ![w].saved = TRUE]
  /\ UNCHANGED <<clock, redisClient, lockUntil, executed, skipped, offCron>>

\* a minute passes; nothing bounds how long an awaited reply takes
AdvanceClock ==
  /\ clock < MaxClock
  /\ clock' = clock + 1
  /\ UNCHANGED <<redisClient, lockUntil, job, executed, skipped, offCron>>

CronInit ==
  /\ DbInit /\ ScoreIdle /\ BatchIdle /\ MarketIdle /\ CacheIdle
  /\ AllocIdle /\ SharpeIdle /\ SizeIdle /\ ListIdle
  /\ clock = 0
  /\ redisClient \in BOOLEAN
  /\ lockUntil = 0
  /\ job = [w \in Workers |-> IdleJob]
  /\ executed = {}
  /\ skipped = {}

CronNext ==
  \/ AdvanceClock
  \/ \E w \in Workers :
       \/ CronTick(w)
       \/ RedisSet(w)
       \/ RedisError(w)
       \/ GenerateAISignals(w)
       \/ SaveSignals(w)

SpecCron == CronInit /\ [][CronNext]_vars

\* ================================================================ claims

\* C1: a signal's status only ever changes from active to executed, expired
\* or cancelled; a status request against a signal that is not active leaves
\* it unchanged, and none moves a signal back to active.
C1_StatusLeavesActiveOnly ==
  [][\A id \in (DOMAIN signals) \cap (DOMAIN signals') :
       signals'[id] # signals[id] =>
         /\ signals[id].status = "active"
         /\ signals'[id].status \in {"executed", "expired", "cancelled"}]_vars

\* C2: a trade is created pending, its status only changes pending->filled or
\* pending->cancelled, and a filled or cancelled trade never changes again.
C2_TerminalTradeImmutable ==
  [][/\ \A t \in 1..Len(trades) :
          /\ t <= Len(trades')
          /\ trades'[t].status # trades[t].status =>
               /\ trades[t].status = "pending"
               /\ trades'[t].status \in {"filled", "cancelled"}
          /\ trades[t].status \in {"filled", "cancelled"} => trades'[t] = trades[t]
     /\ \A t \in (Len(trades) + 1)..Len(trades') : trades'[t].status = "pending"
    ]_vars

\* the document a portfolio request starts from when the user has none
BaseOf(loaded) == IF loaded = <<>> THEN NewPortfolio ELSE loaded[1]

\* C3: after two trade executions whose portfolio updates interleaved (both
\* loaded the same portfolio, or both found none, before either saved), the
\* user's portfolio holds both new positions and its totalValue, totalInvested
\* and unrealizedPnL include both.
C3_InterleavedFillsKeepBoth ==
  \A i \in 1..Len(lastPair) :
    LET pair == lastPair[i]
        base == BaseOf(pair.base)
        pa == PositionOf(pair.a.trade[1], pair.a.posId)
        pb == PositionOf(pair.b.trade[1], pair.b.posId)
    IN (pair.a.kind = "fill" /\ pair.b.kind = "fill") =>
         /\ Len(pair.final) = 1
         /\ HasPosition(pair.final[1], pa.id)
         /\ HasPosition(pair.final[1], pb.id)
         /\ pair.final[1].totalValue = base.totalValue + pa.value + pb.value
         /\ pair.final[1].totalInvested =
              base.totalInvested + pa.invested + pb.invested
         /\ pair.final[1].unrealizedPnL =
              base.unrealizedPnL + pa.unrealizedPnL + pb.unrealizedPnL

\* a portfolio request run alone against the stored portfolio db
RunAlone(op, db) ==
  IF op.kind = "close" /\ (db = <<>> \/ ~HasPosition(BaseOf(db), op.posId)) THEN db
  ELSE IF op.kind = "refresh" /\ db = <<>> THEN db
  ELSE SavePortfolio(db, db, LocalPortfolio(op, db)).doc

\* C4: when a position close interleaves with a trade fill on the same
\* portfolio (the pair of the claim whose two handlers are both in the
\* source), the final portfolio is the result of the two requests in one of
\* the two serial orders.
C4_CloseAndFillSerial ==
  \A i \in 1..Len(lastPair) :
    LET pair == lastPair[i]
    IN {pair.a.kind, pair.b.kind} = {"close", "fill"} =>
         \/ pair.final = RunAlone(pair.b, RunAlone(pair.a, pair.base))
         \/ pair.final = RunAlone(pair.a, RunAlone(pair.b, pair.base))

\* C5: a signal that has been stored is never removed: a lookup by signalId
\* finds it at any later time, also after its expiresAt has passed.
C5_StoredSignalStaysFound ==
  \A id \in created : GetSignal(id).code = 200

\* the execute request of trade t has finished
ExecuteDone(t) ==
  \A p \in Procs :
    ~(req[p].tid = t /\ req[p].pc \in {"executeSave", "findPortfolio", "savePortfolio"})

\* C6: once a trade created against signal S has been executed (its status is
\* filled), signal S has status executed.
C6_FilledTradeExecutesSignal ==
  \A t \in 1..Len(trades) :
    (trades[t].status = "filled" /\ ExecuteDone(t)
       /\ trades[t].signalId \in DOMAIN signals)
      => signals[trades[t].signalId].status = "executed"

\* C7: closing an open position p adds exactly p.unrealizedPnL to realizedPnL,
\* removes p from positions and leaves totalPnL as it was before the close.
C7_CloseKeepsTotalPnL ==
  [][\A p \in Procs :
       (req[p].pc = "closeSave" /\ req'[p].pc = "idle"
          /\ req[p].loaded = portfolio) =>
         LET before == portfolio[1]
             after == portfolio'[1]
             position == PositionById(before, req[p].posId)
         IN /\ after.realizedPnL = before.realizedPnL + position.unrealizedPnL
            /\ ~HasPosition(after, req[p].posId)
            /\ after.totalPnL = before.totalPnL]_vars

\* C8: the stored allocation and exposure maps always equal the computation
\* from scratch over the stored positions; both are all-zero when the
\* positions' total value is 0.
C8_MapsFromScratch ==
  \A i \in 1..Len(portfolio) :
    LET p == portfolio[i]
        total == SumField(p.positions, "value")
    IN /\ p.allocation = ServiceAllocation(p.positions, total)
       /\ p.exposure = ServiceExposure(p.positions, total)

\* C9: every stored position has value = size * currentPrice and
\* unrealizedPnL = (currentPrice - entryPrice) * size * leverage, negated for
\* a short position.
C9_PositionFormulas ==
  \A i \in 1..Len(portfolio) :
    \A k \in 1..Len(portfolio[i].positions) :
      LET pos == portfolio[i].positions[k]
          gain == (pos.currentPrice - pos.entryPrice) * pos.size * pos.leverage
      IN /\ pos.value = pos.size * pos.currentPrice
         /\ pos.unrealizedPnL = IF pos.side = "long" THEN gain ELSE -gain

\* C10: for every snapshot and every noise in [-10, +10], a returned signal
\* has an integer confidence with 60 <= confidence <= 95.
C10_ConfidenceRange ==
  \A i \in 1..Len(generated) : generated[i].confidence \in 60..95

\* C10 witness: a signal was returned whose rounded confidence was above 95
\* before the clamp
C10_Witness ==
  /\ scored
  /\ generated # <<>>
  /\ Round(RawConfidence(AnalyzeMarketData(marketData), marketData, noise)) > 95
  /\ generated[1].confidence = 95

UniqueSignalIds(docs) ==
  \A i, j \in 1..Len(docs) : i # j => docs[i].signalId # docs[j].signalId

\* C12: no two stored signals share a signalId, and a save of a signal whose
\* signalId is already stored (by the job or by POST /signals) fails and
\* leaves the store unchanged, also when the id is that of a signal of the
\* same batch generated for the same symbol at the same timestamp.
C12_DuplicateSignalIdRejected ==
  [][/\ UniqueSignalIds(stored')
     /\ (/\ reply = "saving"
         /\ cursor <= Len(batch)
         /\ HasSignalId(stored, batch[cursor].signalId)
         /\ <<cursor, reply>> # <<cursor', reply'>>)
          => (stored' = stored /\ reply' = "failed")
     /\ (/\ posted' # posted
         /\ HasSignalId(stored, posted'[1].doc.signalId))
          => (stored' = stored /\ posted'[1].code = 500)]_vars

\* C12 witness: the save of a valid signal was rejected because an earlier
\* signal of the same batch, for the same symbol and timestamp, is stored
C12_Witness ==
  /\ reply = "failed"
  /\ cursor <= Len(batch)
  /\ ValidSignal(batch[cursor])
  /\ \E i \in 1..(cursor - 1) : batch[i].signalId = batch[cursor].signalId
  /\ HasSignalId(stored, batch[cursor].signalId)
  /\ UniqueSignalIds(stored)

\* C13: when the job has ended, every signal of the batch that can be stored
\* is stored, whatever happened to the other signals of the batch, and the
\* batch is not reported as failed when some signal of it was stored.
C13_BatchPartialFailure ==
  reply \in {"ok", "failed"} =>
    /\ \A i \in 1..Len(batch) :
         ValidSignal(batch[i]) => HasSignalId(stored, batch[i].signalId)
    /\ (\E i \in 1..Len(batch) : ValidSignal(batch[i])) => reply = "ok"

\* C14: every getMarketData call that has been started eventually completes,
\* whatever the upstream answers, also when it answers HTTP 429 every time.
C14_MarketDataCompletes ==
  \A p \in Procs : (mcall[p].pc # "idle") ~> (mcall[p].pc = "done")

\* C15: an array that was handed to a caller as the value of the signal
\* cache still has the elements it had when it was handed out.
C15_CachedValueUnchanged ==
  \A i \in 1..Len(handed) : heap[handed[i].ref] = handed[i].value

\* C16: for a scored snapshot with marketCap = 0 the volume ratio counts as
\* 0: it is not above any threshold, momentum is weak and liquidity is low,
\* also in the signal that is returned.
C16_ZeroMarketCap ==
  (scored /\ marketData.marketCap = 0) =>
    /\ ~VolumeRatioAbove(marketData, 1, 20)
    /\ CalculateMomentum(marketData) = "weak"
    /\ GetLiquidity(marketData) = "low"
    /\ \A i \in 1..Len(generated) :
         generated[i].momentum = "weak" /\ generated[i].liquidity = "low"


\* the positions of a list in another order
Reorderings(positions) ==
  LET n == Len(positions)
      perms == {f \in [1..n -> 1..n] : \A i, j \in 1..n : f[i] = f[j] => i = j}
  IN {[i \in 1..n |-> positions[f[i]]] : f \in perms}

RECURSIVE ShareSum(_, _)
\* the sum of the shares of the positions whose index is in `members`
ShareSum(members, total) ==
  IF members = {} THEN 0
  ELSE LET i == CHOOSE x \in members : TRUE
       IN Pct(plist[i].value, total) + ShareSum(members \ {i}, total)

RECURSIVE MapSum(_, _)
MapSum(map, keys) ==
  IF keys = {} THEN 0
  ELSE LET k == CHOOSE x \in keys : TRUE
       IN map[k] + MapSum(map, keys \ {k})

\* the exposure bucket the specification gives a symbol
BucketOf(symbol) ==
  CASE symbol \in {"BTC", "btc"} -> "btc"
    [] symbol \in {"ETH", "eth"} -> "eth"
    [] symbol \in {"SOL", "sol"} -> "sol"
    [] OTHER -> "other"

FilledAs(t, P, S, L, A, realized) ==
  /\ t.status = "filled"
  /\ t.filledSize = S
  /\ t.avgPrice = A
  /\ t.filledValue = S * A
  /\ t.pnlUnrealized = (A - P) * S * L
  /\ t.pnlTotal = realized + (A - P) * S * L
  /\ t.returnPercent = ((A - P) * 10000) \div P

\* C18: when the execute handler saves a trade that is pending in the store
\* with requested price P, size S and leverage L, the stored trade and the
\* trade of the response have status filled, filledSize S, avgPrice A (the
\* executed price, or P when none is supplied), filledValue S * A,
\* pnl.unrealized (A - P) * S * L, pnl.total = pnl.realized + pnl.unrealized and
\* returnPercent (A - P) / P * 100 (in hundredths of a percent).
C18_ExecuteComputations ==
  [][\A p \in Procs :
       (req[p].pc = "executeSave" /\ req'[p].pc = "findPortfolio"
          /\ trades[req[p].tid].status = "pending") =>
         LET before == trades[req[p].tid]
             supplied == req[p].input[1]
             A == IF supplied = Undefined THEN before.price ELSE supplied
         IN /\ FilledAs(trades'[req[p].tid], before.price, before.size,
                        before.leverage, A, before.pnlRealized)
            /\ FilledAs(req'[p].trade[1], before.price, before.size,
                        before.leverage, A, before.pnlRealized)
            /\ \A f \in {"size", "price", "leverage", "side", "signalId"} :
                 trades'[req[p].tid][f] = before[f]]_vars

\* a trade of size and leverage above one is stored as filled at a price
\* above the requested one, and another at the requested price
C18_Witness ==
  /\ \E t \in 1..Len(trades) :
       /\ trades[t].status = "filled"
       /\ trades[t].size > 1 /\ trades[t].leverage > 1
       /\ trades[t].avgPrice > trades[t].price
       /\ trades[t].pnlUnrealized =
            (trades[t].avgPrice - trades[t].price) * trades[t].size * trades[t].leverage
       /\ trades[t].returnPercent > 0
  /\ \E t \in 1..Len(trades) :
       /\ trades[t].status = "filled"
       /\ trades[t].avgPrice = trades[t].price
       /\ trades[t].pnlUnrealized = 0



\* C19: for the empty list and for every list of returnPercent values that
\* are all equal, calculateSharpeRatio returns 0.
C19_IdenticalReturnsZero ==
  (sharpe # <<>> /\ \A i, j \in 1..Len(returns) : returns[i] = returns[j])
    => sharpe[1] = 0



\* C20: every generated signal with a positive entry price has its levels on
\* the side of its action: a buy has stopLoss = entryPrice * 0.98 and
\* takeProfit = entryPrice * (1 + takeProfitPercent[type]), so stopLoss <
\* entryPrice < takeProfit; a sell has stopLoss = entryPrice * 1.02 and
\* takeProfit = entryPrice * (1 - takeProfitPercent[type]), so takeProfit <
\* entryPrice < stopLoss; and only sell signals have sell-side levels.
C20_LevelsBySide ==
  \A i \in 1..Len(generated) :
    LET s == generated[i]
        pct == TakeProfitPercent(s.type)
    IN s.entryPrice > 0 =>
         /\ s.action = "buy" =>
              /\ 100 * s.stopLoss = s.entryPrice * 98
              /\ 100 * s.takeProfit = s.entryPrice * (100 + pct)
              /\ s.stopLoss < s.entryPrice /\ s.entryPrice < s.takeProfit
         /\ s.action = "sell" =>
              /\ 100 * s.stopLoss = s.entryPrice * 102
              /\ 100 * s.takeProfit = s.entryPrice * (100 - pct)
              /\ s.takeProfit < s.entryPrice /\ s.entryPrice < s.stopLoss
         /\ (s.takeProfit < s.entryPrice \/ s.entryPrice < s.stopLoss)
              => s.action = "sell"



\* the leverage band the specification gives a signal type
LeverageBand(type) ==
  CASE type = "quick" -> 3..5
    [] type = "spot" -> {1}
    [] type = "hodl" -> {1}
    [] type = "degen" -> 5..10

\* C21: for every signal type and every confidence in 60..95 the position
\* size is round(baseSize[type] * confidence / 100) and lies in 1..100, the
\* leverage is at least 1 and inside the band of the type, and the schema's
\* range validation accepts both.
C21_SizeAndLeverageInRange ==
  sized # <<>> =>
    LET in == sizing[1]
        out == sized[1]
        exact == BaseSize(in.type) * in.confidence
    IN /\ 200 * out.positionSize > 2 * exact - 100
       /\ 200 * out.positionSize <= 2 * exact + 100
       /\ out.positionSize \in 1..100
       /\ out.leverage >= 1
       /\ out.leverage \in LeverageBand(in.type)
       /\ out.accepted

\* the smallest size (a degen signal at confidence 60) and the largest
\* leverage (a degen signal with the highest roll) have been computed
C21_Witness ==
  /\ sized # <<>>
  /\ sizing[1].type = "degen" /\ sizing[1].confidence = MinConfidence
  /\ sizing[1].roll5 = 4
  /\ sized[1].positionSize = 1
  /\ sized[1].leverage = 9



C23_FilledTradeHasPosition ==
  \A t \in 1..Len(trades) :
    (trades[t].status = "filled" /\ ExecuteDone(t)) =>
      /\ portfolio # <<>>
      /\ \E i \in 1..Len(portfolio[1].positions) :
           LET position == portfolio[1].positions[i]
           IN /\ position.id[1] = t
              /\ position.signalId = trades[t].signalId
              /\ position.size = trades[t].filledSize
              /\ position.entryPrice = trades[t].avgPrice



\* C24: when an execute and a cancel of one pending trade interleave, one of
\* them only takes effect: no trade is stored as cancelled while the portfolio
\* holds a position created from it, and a trade that a cancel has stored as
\* cancelled (the cancel is answered with that save) is never filled later.
C24_ExecuteCancelExclusive ==
  /\ [](\A t \in 1..Len(trades) :
          (trades[t].status = "cancelled" /\ portfolio # <<>>) =>
            \A i \in 1..Len(portfolio[1].positions) :
              portfolio[1].positions[i].id[1] # t)
  /\ [][\A t \in 1..Len(trades) :
          trades[t].status = "cancelled" => trades'[t].status # "filled"]_vars



\* C25: after every sequence of trade fills, valuation refreshes and position
\* closes (no request is being handled), the stored aggregates match the
\* stored positions: totalValue, unrealizedPnL and totalInvested are the sums
\* over the positions and totalPnL = realizedPnL + unrealizedPnL.
C25_AggregatesMatchPositions ==
  (\A q \in Procs : req[q].pc = "idle") =>
    \A i \in 1..Len(portfolio) :
      LET p == portfolio[i]
      IN /\ p.totalValue = SumField(p.positions, "value")
         /\ p.unrealizedPnL = SumField(p.positions, "unrealizedPnL")
         /\ p.totalInvested = SumField(p.positions, "invested")
         /\ p.totalPnL = p.realizedPnL + p.unrealizedPnL



\* C26: for every portfolio, also one without positions, the reported
\* realizedPnL is the stored realizedPnL and the reported totalPnL is
\* realizedPnL plus the sum of the positions' unrealizedPnL; the reported
\* realized PnL does not drop to 0 when the last position has been closed.
C26_ReportedRealizedPnL ==
  \A i \in 1..Len(report) :
    LET p == report[i].portfolio
        m == report[i].metrics
    IN /\ m.realizedPnL = p.realizedPnL
       /\ m.totalPnL = p.realizedPnL + SumField(p.positions, "unrealizedPnL")



\* C27: a create request that the handler accepts (it goes on to store the
\* trade) names a signal that exists, has status active and has expiresAt
\* later than the current time; every stored trade comes from such a request.
C27_TradeAgainstLiveSignal ==
  [][\A p \in Procs :
       (req[p].pc = "idle" /\ req'[p].pc = "createSave") =>
         LET signalId == req'[p].input[1].signalId
         IN /\ signalId \in DOMAIN signals
            /\ signals[signalId].status = "active"
            /\ signals[signalId].expiresAt > now]_vars



\* C28: any two upstream requests sent through rateLimitedRequest start at
\* least requestInterval apart: whenever a call sends its request, the time
\* since the previous request was sent is at least requestInterval, also when
\* several calls are in progress at once.
C28_RequestsSpacedApart ==
  [][\A p \in Procs :
       (mcall[p].pc # "inflight" /\ mcall'[p].pc = "inflight") =>
         sinceRequest >= RequestInterval]_vars

RECURSIVE Occurrences(_, _)
Occurrences(array, id) ==
  IF array = <<>> THEN 0
  ELSE (IF Head(array) = id THEN 1 ELSE 0) + Occurrences(Tail(array), id)

\* array holds every manual signal that was added and not deleted or cleared
\* exactly once, and no other manual signal
HoldsManualOnce(array, manual) ==
  \A id \in ManualIds :
    Occurrences(array, id) = IF InArray(manual, id) THEN 1 ELSE 0

\* C30: every result of getTradingSignals contains each manual signal that
\* was added and not since deleted or cleared exactly once, and no manual
\* signal that was deleted or cleared: the array a fresh cache answers with,
\* and the array a call returns after generating or after a failed fetch.
C30_ResultsHoldManualSignals ==
  /\ [](tradingSignalsCache.fresh /\ tradingSignalsCache.data # Null =>
          HoldsManualOnce(heap[tradingSignalsCache.data], manualSignals))
  /\ [][\A p \in Procs :
          (tsCall[p] = "generating" /\ tsCall'[p] = "idle") =>
            HoldsManualOnce(handed'[1].value, manualSignals')]_vars

====
